---- MODULE Spec2Model ----
(***************************************************************************)
(* The tournament proxy of deckshield-torneos.  Two handler files serve    *)
(* the same "tournaments" table:                                           *)
(*   src/unnamed/part_002  list/create/add_round/update_round/             *)
(*                         set_final_result, writes go through             *)
(*                         sanitizeRounds + computeScore (persistRounds);  *)
(*   src/unnamed/part_003  list/create/get/update_tournament/add_round/    *)
(*                         update_round, writes go through saveRounds.     *)
(* Definitions that model part_002 end in _002, those of part_003 in _003. *)
(* A JavaScript object is a function from its keys; a key that is missing  *)
(* reads as Undef.  A number-or-null is a set of at most one integer.      *)
(***************************************************************************)
EXTENDS Integers, Sequences, FiniteSets, Bags, TLC

\* ------------------------------------------------------------------------
\* Bounds of the model
\* ------------------------------------------------------------------------
\* rows the table can hold
MaxTournaments == 2
\* requests that reach a store write (insert or update), over the whole run
MaxMutations == 3
\* the same, in the specification that follows a run one write further
DeepMutations == 4
\* round mutations that can be between their read and their write at once
MaxInFlight == 2
\* store writes of a run of requests that enter through the handlers
RouterMutations == 2
\* store writes of a run that starts from a table part_003 has filled
SeededMutations == 2
\* rounds of a collection handed to computeScore on its own
MaxRounds == 3

\* ------------------------------------------------------------------------
\* JavaScript values
\* ------------------------------------------------------------------------
Undef == "<undefined>"
Null == "<null>"
EmptyObject == << >>
NoNumber == {}

Get(o, k) == IF k \in DOMAIN o THEN o[k] ELSE Undef

\* !v for the values a query parameter or a column can take
Falsy(v) == v \in {Undef, Null, ""}

\* String(v).toUpperCase(), on the strings the requests of this model send
toUpperCase(s) ==
  CASE s = "w" -> "W"
    [] s = "l" -> "L"
    [] s = "t" -> "T"
    [] s = "x" -> "X"
    [] s = "first" -> "FIRST"
    [] s = "second" -> "SECOND"
    [] s = "bye" -> "BYE"
    [] s = "id" -> "ID"
    [] s = "no_show" -> "NO_SHOW"
    [] s = "null" -> "NULL"
    [] OTHER -> s

\* Number(v) where it is finite, on the strings the requests of this model send
Number(v) ==
  CASE v = "0" -> {0}
    [] v = "1" -> {1}
    [] v = "2" -> {2}
    [] v = "3" -> {3}
    [] v = "4" -> {4}
    [] v = "7" -> {7}
    [] v = "-1" -> {0 - 1}
    [] OTHER -> NoNumber

toIntOrNull(v) == IF v \in {Undef, Null, ""} THEN NoNumber ELSE Number(v)

normalizeResult(v) ==
  IF v = Undef THEN Undef
  ELSE IF v \in {Null, "", "null"} THEN Null
  ELSE IF toUpperCase(v) \in {"W", "L", "T"} THEN toUpperCase(v)
  ELSE Undef

normalizeTurn(v) ==
  IF v = Undef THEN Undef
  ELSE IF v \in {Null, "", "null"} THEN Null
  ELSE IF toUpperCase(v) \in {"FIRST", "SECOND"} THEN toUpperCase(v)
  ELSE Undef

normalizeSpecial(v) ==
  IF v = Undef THEN Undef
  ELSE IF v \in {Null, "", "null"} THEN Null
  ELSE IF toUpperCase(v) \in {"ID", "NO_SHOW", "BYE"} THEN toUpperCase(v)
  ELSE Undef

\* ------------------------------------------------------------------------
\* Score + Sanitize (part_002)
\* ------------------------------------------------------------------------
NullGame(n) == [game |-> n, result |-> Null, turn |-> Null]
NullGames == << NullGame(1), NullGame(2), NullGame(3) >>
NullDeck == [p1 |-> NoNumber, p2 |-> NoNumber]

SpecialValues == {"BYE", "NO_SHOW", "ID"}

\* number of games of a round with the given result
CountResult(games, res) == Cardinality({i \in DOMAIN games : games[i].result = res})

\* the loop body that skips a round whose games are level
RoundOutcome_levelSkipped(r) ==
  LET special == IF Get(r, "special") = Undef THEN Null ELSE r.special
      games == IF "games" \in DOMAIN r THEN r.games ELSE << >>
      w == CountResult(games, "W")
      l == CountResult(games, "L")
  IN  IF special \in {"BYE", "NO_SHOW"} THEN "W"
      ELSE IF special = "ID" THEN "T"
      ELSE IF w > l THEN "W"
      ELSE IF l > w THEN "L"
      ELSE "-"

\* the loop body that knows BYE but not NO_SHOW
RoundOutcome_byeOnly(r) ==
  LET special == IF Get(r, "special") = Undef THEN Null ELSE r.special
      games == IF "games" \in DOMAIN r THEN r.games ELSE << >>
      hasAny == \E i \in DOMAIN games : ~Falsy(games[i].result)
      w == CountResult(games, "W")
      l == CountResult(games, "L")
  IN  IF special = "BYE" THEN "W"
      ELSE IF special = "ID" THEN "T"
      ELSE IF ~hasAny THEN "-"
      ELSE IF w > l THEN "W"
      ELSE IF l > w THEN "L"
      ELSE "T"

\* the contribution of one round: "W", "L", "T" or "-" (nothing)
RoundOutcome(r) ==
  LET special == IF Get(r, "special") = Undef THEN Null ELSE r.special
      games == IF "games" \in DOMAIN r THEN r.games ELSE << >>
      hasAny == \E i \in DOMAIN games : ~Falsy(games[i].result)
      w == CountResult(games, "W")
      l == CountResult(games, "L")
  IN  IF special \in {"BYE", "NO_SHOW"} THEN "W"
      ELSE IF special = "ID" THEN "T"
      ELSE IF ~hasAny THEN "-"
      ELSE IF w > l THEN "W"
      ELSE IF l > w THEN "L"
      ELSE "T"

\* the loop over the rounds, in order, from round i on
RECURSIVE ScoreLoop(_, _, _, _, _)
ScoreLoop(rounds, i, wins, losses, ties) ==
  IF i > Len(rounds)
  THEN [wins |-> wins, losses |-> losses, ties |-> ties,
        text |-> ToString(wins) \o "-" \o ToString(losses) \o "-" \o ToString(ties)]
  ELSE LET o == RoundOutcome(rounds[i])
       IN  ScoreLoop(rounds, i + 1,
                     IF o = "W" THEN wins + 1 ELSE wins,
                     IF o = "L" THEN losses + 1 ELSE losses,
                     IF o = "T" THEN ties + 1 ELSE ties)

\* the loop that ends (break) at the first round without a reported game
computeScore_breaks(rounds) ==
  LET stop == {i \in DOMAIN rounds : RoundOutcome(rounds[i]) = "-"}
      n == IF stop = {} THEN Len(rounds)
           ELSE (CHOOSE i \in stop : \A j \in stop : i <= j) - 1
  IN  ScoreLoop(SubSeq(rounds, 1, n), 1, 0, 0, 0)

computeScore(rounds) == ScoreLoop(rounds, 1, 0, 0, 0)

\* o with key k set to v
WithKey(o, k, v) == [x \in DOMAIN o \cup {k} |-> IF x = k THEN v ELSE o[x]]

sanitizeRound(r) ==
  LET round == IF "opponent_deck" \in DOMAIN r THEN r
               ELSE WithKey(r, "opponent_deck", NullDeck)
  IN  IF Get(round, "special") \in SpecialValues
      THEN WithKey(round, "games", NullGames)
      ELSE round

sanitizeRounds(rounds) == [i \in DOMAIN rounds |-> sanitizeRound(rounds[i])]

\* what JSON keeps of a round: a key whose value is undefined is dropped
Serialize(r) == [k \in {x \in DOMAIN r : ~(x = "special" /\ r[x] = Undef)} |-> r[k]]
SerializeRounds(rounds) == [i \in DOMAIN rounds |-> Serialize(rounds[i])]

\* ------------------------------------------------------------------------
\* The store: the rows of the "tournaments" table, in insertion order
\* ------------------------------------------------------------------------
VARIABLES
  store,     \* the rows of the table
  pend,      \* round mutations between their read and their write (a bag)
  last,      \* the last request answered, with its response
  nmut,      \* store writes performed so far
  yielded,   \* per row, the round numbers successful add_round calls returned
  call       \* a call of one of the helper functions: its argument and result

vars == << store, pend, last, nmut, yielded, call >>

\* the id the store assigns to its n-th row
NewId(n) == "t" \o ToString(n)

\* the filter without its customer_id predicate
Match_anyOwner(st, customerId, id) == {i \in DOMAIN st : st[i].id = id}

\* .eq("id", id).eq("customer_id", customerId): the matching row indexes
Match(st, customerId, id) ==
  {i \in DOMAIN st : st[i].id = id /\ st[i].customer_id = customerId}

\* error.message of a .single() that matched no row, and of a failing store
NoRowsMessage == "JSON object requested, multiple (or no) rows returned"
StoreDownMessage == "store unavailable"

\* .single(): the row index, or 0 with an error when the store fails or no
\* row matches
Single(st, customerId, id, fail) ==
  IF fail THEN [idx |-> 0, error |-> StoreDownMessage]
  ELSE IF Match(st, customerId, id) = {} THEN [idx |-> 0, error |-> NoRowsMessage]
  ELSE [idx |-> CHOOSE i \in Match(st, customerId, id) : TRUE, error |-> ""]

\* ------------------------------------------------------------------------
\* Responses.  An outcome is what a handler call does: its JSON response,
\* the number of store calls it issued, and the table afterwards.
\* ------------------------------------------------------------------------
Failure(error) == [ok |-> FALSE, error |-> error, details |-> Undef, tournament |-> EmptyObject]
FailureWith(error, details) ==
  [ok |-> FALSE, error |-> error, details |-> details, tournament |-> EmptyObject]
Success(row) == [ok |-> TRUE, error |-> Undef, details |-> Undef, tournament |-> row]

Outcome(resp, access, st) == [resp |-> resp, access |-> access, store |-> st]

\* v ?? null
OrNull(v) == IF v = Undef THEN Null ELSE v

\* ------------------------------------------------------------------------
\* part_002: create_tournament, set_final_result
\* ------------------------------------------------------------------------
createTournament_002(st, customerId, q, fail) ==
  IF Falsy(Get(q, "tournament_name")) \/ Falsy(Get(q, "tournament_date"))
  THEN Outcome(Failure("Missing required fields"), 0, st)
  ELSE IF fail THEN Outcome(Failure("Insert failed"), 1, st)
  ELSE LET row == [id |-> NewId(Len(st) + 1),
                   customer_id |-> customerId,
                   tournament_name |-> q.tournament_name,
                   tournament_date |-> q.tournament_date,
                   format |-> OrNull(Get(q, "format")),
                   tournament_type |-> OrNull(Get(q, "tournament_type")),
                   result |-> IF Get(q, "result") = Undef THEN "SinTop" ELSE q.result,
                   rounds |-> << >>,
                   score |-> computeScore(<< >>)]
       IN  Outcome(Success(row), 1, Append(st, row))

FinalResults ==
  {"Ganador", "Finalista", "Top4", "Top8", "Top16", "Top32", "Top64", "Top128",
   "Top256", "Top512", "Top1024", "Droppeado", "SinTop"}

\* setFinalResult that also resets the score
setFinalResult_002_resetsScore(st, customerId, id, q, fail) ==
  IF Get(q, "result") \notin FinalResults
  THEN Outcome(Failure("Invalid final result"), 0, st)
  ELSE LET got == Single(st, customerId, id, fail)
       IN  IF got.idx = 0 THEN Outcome(Failure("Failed to update result"), 1, st)
           ELSE LET st2 == [st EXCEPT ![got.idx].result = q.result,
                                      ![got.idx].score = EmptyObject]
                IN  Outcome(Success(st2[got.idx]), 1, st2)

\* setFinalResult without its allowed.includes(result) test
setFinalResult_002_unchecked(st, customerId, id, q, fail) ==
  LET got == Single(st, customerId, id, fail)
  IN  IF got.idx = 0 THEN Outcome(Failure("Failed to update result"), 1, st)
      ELSE LET st2 == [st EXCEPT ![got.idx].result = Get(q, "result")]
           IN  Outcome(Success(st2[got.idx]), 1, st2)

setFinalResult_002(st, customerId, id, q, fail) ==
  IF Get(q, "result") \notin FinalResults
  THEN Outcome(Failure("Invalid final result"), 0, st)
  ELSE LET got == Single(st, customerId, id, fail)
       IN  IF got.idx = 0 THEN Outcome(Failure("Failed to update result"), 1, st)
           ELSE LET st2 == [st EXCEPT ![got.idx].result = q.result]
                IN  Outcome(Success(st2[got.idx]), 1, st2)

\* ------------------------------------------------------------------------
\* part_003: create_tournament, get_tournament, update_tournament
\* ------------------------------------------------------------------------
\* createTournament whose required-field test looks at the name only
createTournament_003_nameOnly(st, customerId, q, fail) ==
  IF Falsy(Get(q, "tournament_name"))
  THEN Outcome(Failure("Missing required fields"), 0, st)
  ELSE IF fail THEN Outcome(FailureWith("Database insert failed", StoreDownMessage), 1, st)
  ELSE LET row == [id |-> NewId(Len(st) + 1),
                   customer_id |-> customerId,
                   tournament_name |-> q.tournament_name,
                   tournament_date |-> OrNull(Get(q, "tournament_date")),
                   format |-> OrNull(Get(q, "format")),
                   tournament_type |-> OrNull(Get(q, "tournament_type")),
                   result |-> OrNull(Get(q, "result")),
                   rounds |-> << >>,
                   score |-> EmptyObject]
       IN  Outcome(Success(row), 1, Append(st, row))

createTournament_003(st, customerId, q, fail) ==
  IF Falsy(Get(q, "tournament_name")) \/ Falsy(Get(q, "tournament_date"))
  THEN Outcome(Failure("Missing required fields"), 0, st)
  ELSE IF fail THEN Outcome(FailureWith("Database insert failed", StoreDownMessage), 1, st)
  ELSE LET row == [id |-> NewId(Len(st) + 1),
                   customer_id |-> customerId,
                   tournament_name |-> q.tournament_name,
                   tournament_date |-> q.tournament_date,
                   format |-> OrNull(Get(q, "format")),
                   tournament_type |-> OrNull(Get(q, "tournament_type")),
                   result |-> OrNull(Get(q, "result")),
                   rounds |-> << >>,
                   score |-> EmptyObject]
       IN  Outcome(Success(row), 1, Append(st, row))

getTournamentOwned_003(st, customerId, id, fail) ==
  IF Falsy(id) THEN Outcome(Failure("Missing tournament id"), 0, st)
  ELSE LET got == Single(st, customerId, id, fail)
       IN  IF got.idx = 0 THEN Outcome(Failure("Tournament not found"), 1, st)
           ELSE Outcome(Success(st[got.idx]), 1, st)

getTournament_003(st, customerId, id, q, fail) == getTournamentOwned_003(st, customerId, id, fail)

AllowedFields == {"tournament_name", "tournament_date", "format", "tournament_type", "result"}

\* updateTournament that copies every parameter naming a column
updateTournament_003_anyColumn(st, customerId, id, q, fail) ==
  IF Falsy(id) THEN Outcome(Failure("Missing id"), 0, st)
  ELSE LET updates == [k \in {x \in AllowedFields \cup {"customer_id"} : Get(q, x) # Undef} |-> q[k]]
       IN  IF DOMAIN updates = {} THEN Outcome(Failure("No fields to update"), 0, st)
           ELSE LET got == Single(st, customerId, id, fail)
                IN  IF got.idx = 0
                    THEN Outcome(FailureWith("Update failed", got.error), 1, st)
                    ELSE LET row == [k \in DOMAIN st[got.idx] |->
                                       IF k \in DOMAIN updates THEN updates[k]
                                       ELSE st[got.idx][k]]
                             st2 == [st EXCEPT ![got.idx] = row]
                         IN  Outcome(Success(row), 1, st2)

\* updateTournament that appends the new text to the stored one
updateTournament_003_accumulating(st, customerId, id, q, fail) ==
  IF Falsy(id) THEN Outcome(Failure("Missing id"), 0, st)
  ELSE LET updates == [k \in {x \in AllowedFields : Get(q, x) # Undef} |-> q[k]]
       IN  IF DOMAIN updates = {} THEN Outcome(Failure("No fields to update"), 0, st)
           ELSE LET got == Single(st, customerId, id, fail)
                IN  IF got.idx = 0
                    THEN Outcome(FailureWith("Update failed", got.error), 1, st)
                    ELSE LET row == [k \in DOMAIN st[got.idx] |->
                                       IF k \in DOMAIN updates THEN st[got.idx][k] \o updates[k]
                                       ELSE st[got.idx][k]]
                             st2 == [st EXCEPT ![got.idx] = row]
                         IN  Outcome(Success(row), 1, st2)

updateTournament_003(st, customerId, id, q, fail) ==
  IF Falsy(id) THEN Outcome(Failure("Missing id"), 0, st)
  ELSE LET updates == [k \in {x \in AllowedFields : Get(q, x) # Undef} |-> q[k]]
       IN  IF DOMAIN updates = {} THEN Outcome(Failure("No fields to update"), 0, st)
           ELSE LET got == Single(st, customerId, id, fail)
                IN  IF got.idx = 0
                    THEN Outcome(FailureWith("Update failed", got.error), 1, st)
                    ELSE LET row == [k \in DOMAIN st[got.idx] |->
                                       IF k \in DOMAIN updates THEN updates[k]
                                       ELSE st[got.idx][k]]
                             st2 == [st EXCEPT ![got.idx] = row]
                         IN  Outcome(Success(row), 1, st2)

\* ------------------------------------------------------------------------
\* Round mutations.  Each is a read (getTournamentOwned), a computation on
\* the rounds that were read, and a write of the whole rounds array.  The
\* read step answers at once when the request is rejected; otherwise it
\* leaves the request in flight with the rounds it read (snap) and the
\* rounds it is going to write (rounds).
\* ------------------------------------------------------------------------
Rejected(resp, access) ==
  [proceed |-> FALSE, resp |-> resp, access |-> access, snap |-> << >>, rounds |-> << >>]
Proceed(snap, rounds) ==
  [proceed |-> TRUE, resp |-> EmptyObject, access |-> 1, snap |-> snap, rounds |-> rounds]

NewRound(n) ==
  [round_number |-> n, opponent_deck |-> NullDeck, games |-> NullGames, special |-> Null]

\* findIndex whose -1 is then read as "the last round"
FindIndex_lastOnMiss(rounds, rn) ==
  IF \E i \in DOMAIN rounds : {rounds[i].round_number} = rn
  THEN CHOOSE i \in DOMAIN rounds :
         /\ {rounds[i].round_number} = rn
         /\ \A j \in DOMAIN rounds : {rounds[j].round_number} = rn => i <= j
  ELSE Len(rounds)

\* findIndex: the first index whose round has the number, 0 for -1
FindIndex(rounds, rn) ==
  IF \E i \in DOMAIN rounds : {rounds[i].round_number} = rn
  THEN CHOOSE i \in DOMAIN rounds :
         /\ {rounds[i].round_number} = rn
         /\ \A j \in DOMAIN rounds : {rounds[j].round_number} = rn => i <= j
  ELSE 0

\* !rn for a number-or-null
FalsyNumber(rn) == rn = NoNumber \/ rn = {0}

\* ---- part_002 ----
getTournamentOwned_002(st, customerId, id, fail) ==
  LET got == Single(st, customerId, id, fail)
  IN  IF got.idx = 0 THEN Outcome(Failure("Tournament not found"), 1, st)
      ELSE Outcome(Success(st[got.idx]), 1, st)

persistRounds_002(st, customerId, id, rounds, fail) ==
  LET clean == sanitizeRounds(rounds)
      score == computeScore(clean)
      got == Single(st, customerId, id, fail)
  IN  IF got.idx = 0 THEN Outcome(Failure("Failed to save rounds"), 2, st)
      ELSE LET st2 == [st EXCEPT ![got.idx].rounds = SerializeRounds(clean),
                                 ![got.idx].score = score]
           IN  Outcome(Success(st2[got.idx]), 2, st2)

\* addRound numbering the new round rounds.length
addRound_002_lengthOnly(st, customerId, id, q, fail) ==
  LET got == getTournamentOwned_002(st, customerId, id, fail)
  IN  IF ~got.resp.ok THEN Rejected(got.resp, 1)
      ELSE LET rounds == got.resp.tournament.rounds
           IN  Proceed(rounds, Append(rounds, NewRound(Len(rounds))))

addRound_002(st, customerId, id, q, fail) ==
  LET got == getTournamentOwned_002(st, customerId, id, fail)
  IN  IF ~got.resp.ok THEN Rejected(got.resp, 1)
      ELSE LET rounds == got.resp.tournament.rounds
           IN  Proceed(rounds, Append(rounds, NewRound(Len(rounds) + 1)))

\* the assignments of updateRound to the round r
patchRound_002(r, q) ==
  LET deck1 == IF Get(q, "op_p1") # Undef
               THEN [r.opponent_deck EXCEPT !.p1 = toIntOrNull(q.op_p1)]
               ELSE r.opponent_deck
      deck2 == IF Get(q, "op_p2") # Undef
               THEN [deck1 EXCEPT !.p2 = toIntOrNull(q.op_p2)]
               ELSE deck1
      special == IF Get(q, "special") # Undef THEN normalizeSpecial(q.special)
                 ELSE Get(r, "special")
      g1 == normalizeResult(Get(q, "g1"))
      games == IF g1 # Undef THEN [r.games EXCEPT ![1].result = g1] ELSE r.games
  IN  [k \in DOMAIN r \cup {"special"} |->
         CASE k = "opponent_deck" -> deck2
           [] k = "special" -> special
           [] k = "games" -> games
           [] OTHER -> r[k]]

\* a call that ends by throwing: there is no result object
Uncaught(message) == [uncaught |-> message]

\* r.opponent_deck.p1 = ..., r.opponent_deck.p2 = ... or r.games[0].result = ...
\* on a round without that property: a TypeError
throws_002(r, q) ==
  \/ /\ Get(q, "op_p1") # Undef \/ Get(q, "op_p2") # Undef
     /\ "opponent_deck" \notin DOMAIN r
  \/ /\ normalizeResult(Get(q, "g1")) # Undef
     /\ "games" \notin DOMAIN r

updateRound_002(st, customerId, id, q, fail) ==
  LET rn == toIntOrNull(Get(q, "round_number"))
  IN  IF FalsyNumber(rn) THEN Rejected(Failure("Invalid round_number"), 0)
      ELSE LET got == getTournamentOwned_002(st, customerId, id, fail)
           IN  IF ~got.resp.ok THEN Rejected(got.resp, 1)
               ELSE LET rounds == got.resp.tournament.rounds
                        idx == FindIndex(rounds, rn)
                    IN  IF idx = 0 THEN Rejected(Failure("Round not found"), 1)
                        ELSE IF throws_002(rounds[idx], q)
                          THEN Rejected(Uncaught("TypeError"), 1)
                        ELSE Proceed(rounds,
                                     [rounds EXCEPT ![idx] = patchRound_002(rounds[idx], q)])

\* ---- part_003 ----
\* saveRounds appending to the stored array instead of replacing it
saveRounds_003_appending(st, customerId, id, rounds, fail) ==
  LET got == Single(st, customerId, id, fail)
  IN  IF got.idx = 0 THEN Outcome(FailureWith("Failed to save rounds", got.error), 2, st)
      ELSE LET st2 == [st EXCEPT ![got.idx].rounds = @ \o SerializeRounds(rounds)]
           IN  Outcome(Success(st2[got.idx]), 2, st2)

saveRounds_003(st, customerId, id, rounds, fail) ==
  LET got == Single(st, customerId, id, fail)
  IN  IF got.idx = 0 THEN Outcome(FailureWith("Failed to save rounds", got.error), 2, st)
      ELSE LET st2 == [st EXCEPT ![got.idx].rounds = SerializeRounds(rounds)]
           IN  Outcome(Success(st2[got.idx]), 2, st2)

\* rounds.reduce(Math.max over round_number, 0)
RECURSIVE MaxRound(_, _, _)
MaxRound(rounds, i, m) ==
  IF i > Len(rounds) THEN m
  ELSE MaxRound(rounds, i + 1, IF rounds[i].round_number > m THEN rounds[i].round_number ELSE m)

\* addRound with rounds.unshift(newRound)
addRound_003_unshift(st, customerId, id, q, fail) ==
  LET got == getTournamentOwned_003(st, customerId, id, fail)
  IN  IF ~got.resp.ok THEN Rejected(got.resp, got.access)
      ELSE LET rounds == got.resp.tournament.rounds
           IN  Proceed(rounds, << NewRound(MaxRound(rounds, 1, 0) + 1) >> \o rounds)

addRound_003(st, customerId, id, q, fail) ==
  LET got == getTournamentOwned_003(st, customerId, id, fail)
  IN  IF ~got.resp.ok THEN Rejected(got.resp, got.access)
      ELSE LET rounds == got.resp.tournament.rounds
           IN  Proceed(rounds, Append(rounds, NewRound(MaxRound(rounds, 1, 0) + 1)))

\* byNum.get(n) || { game: n, result: null, turn: null }: a Map keeps the last
\* entry of a key
ByNum(games, n) ==
  IF \E i \in DOMAIN games : games[i].game = n
  THEN games[CHOOSE i \in DOMAIN games :
               /\ games[i].game = n
               /\ \A j \in DOMAIN games : games[j].game = n => j <= i]
  ELSE NullGame(n)

\* the game slot taken from byNum.get(1) for every n
patchGame_003_slotOne(games, n, q) ==
  LET g == ByNum(games, 1)
      rk == "g" \o ToString(n)
      tk == "g" \o ToString(n) \o "_turn"
      g2 == IF Get(q, rk) # Undef THEN [g EXCEPT !.result = normalizeResult(q[rk])] ELSE g
  IN  IF Get(q, tk) # Undef THEN [g2 EXCEPT !.turn = normalizeTurn(q[tk])] ELSE g2

\* the game slot n after the assignments of its result and turn
patchGame_003(games, n, q) ==
  LET g == ByNum(games, n)
      rk == "g" \o ToString(n)
      tk == "g" \o ToString(n) \o "_turn"
      g2 == IF Get(q, rk) # Undef THEN [g EXCEPT !.result = normalizeResult(q[rk])] ELSE g
  IN  IF Get(q, tk) # Undef THEN [g2 EXCEPT !.turn = normalizeTurn(q[tk])] ELSE g2

patchRound_003(r, q) ==
  LET deck0 == IF "opponent_deck" \in DOMAIN r THEN r.opponent_deck ELSE NullDeck
      deck1 == IF Get(q, "op_p1") # Undef
               THEN [deck0 EXCEPT !.p1 = toIntOrNull(q.op_p1)] ELSE deck0
      deck2 == IF Get(q, "op_p2") # Undef
               THEN [deck1 EXCEPT !.p2 = toIntOrNull(q.op_p2)] ELSE deck1
      touchDeck == Get(q, "op_p1") # Undef \/ Get(q, "op_p2") # Undef
      games0 == IF "games" \in DOMAIN r THEN r.games ELSE NullGames
      games == << patchGame_003(games0, 1, q), patchGame_003(games0, 2, q),
                  patchGame_003(games0, 3, q) >>
      keys == DOMAIN r \cup {"games"}
                \cup (IF touchDeck THEN {"opponent_deck"} ELSE {})
                \cup (IF Get(q, "special") # Undef THEN {"special"} ELSE {})
  IN  [k \in keys |->
         CASE k = "opponent_deck" -> IF touchDeck THEN deck2 ELSE r[k]
           [] k = "special" -> IF Get(q, "special") # Undef
                               THEN normalizeSpecial(q.special) ELSE r[k]
           [] k = "games" -> games
           [] OTHER -> r[k]]

\* the first check of updateRound on the patch that fails, Undef if none does
invalidField_003(q) ==
  IF Get(q, "special") # Undef /\ normalizeSpecial(q.special) = Undef
    THEN "Invalid special value"
  ELSE IF Get(q, "g1") # Undef /\ normalizeResult(q.g1) = Undef THEN "Invalid g1 value"
  ELSE IF Get(q, "g2") # Undef /\ normalizeResult(q.g2) = Undef THEN "Invalid g2 value"
  ELSE IF Get(q, "g3") # Undef /\ normalizeResult(q.g3) = Undef THEN "Invalid g3 value"
  ELSE IF Get(q, "g1_turn") # Undef /\ normalizeTurn(q.g1_turn) = Undef
    THEN "Invalid g1_turn value"
  ELSE IF Get(q, "g2_turn") # Undef /\ normalizeTurn(q.g2_turn) = Undef
    THEN "Invalid g2_turn value"
  ELSE IF Get(q, "g3_turn") # Undef /\ normalizeTurn(q.g3_turn) = Undef
    THEN "Invalid g3_turn value"
  ELSE Undef

updateRound_003(st, customerId, id, q, fail) ==
  LET roundNumber == toIntOrNull(Get(q, "round_number"))
  IN  IF Falsy(id) THEN Rejected(Failure("Missing tournament id"), 0)
      ELSE IF FalsyNumber(roundNumber)
        THEN Rejected(Failure("Missing or invalid round_number"), 0)
      ELSE LET got == getTournamentOwned_003(st, customerId, id, fail)
           IN  IF ~got.resp.ok THEN Rejected(got.resp, got.access)
               ELSE LET rounds == got.resp.tournament.rounds
                        idx == FindIndex(rounds, roundNumber)
                    IN  IF idx = 0 THEN Rejected(Failure("Round not found"), 1)
                        ELSE IF invalidField_003(q) # Undef
                          THEN Rejected(Failure(invalidField_003(q)), 1)
                        ELSE Proceed(rounds,
                                     [rounds EXCEPT ![idx] = patchRound_003(rounds[idx], q)])

\* ------------------------------------------------------------------------
\* Requests
\* ------------------------------------------------------------------------
Customers == {"A", "B"}
Ids == {Undef} \cup {NewId(n) : n \in 1..MaxTournaments}
\* the store calls of a run succeed, but for the rows they do not match
NoFaults == {FALSE}

CreateQueries ==
  { [tournament_name |-> "Cup", tournament_date |-> "2024-05-01"],
    [tournament_name |-> "Cup"],
    [tournament_name |-> "", tournament_date |-> "2024-05-01"] }

MetaQueries ==
  { << >>,
    [customer_id |-> "B", rounds |-> "x"],
    [result |-> "Top4"],
    [tournament_name |-> "Open", score |-> "9-9-9"] }

FinalQueries == { << >>, [result |-> "Top8"], [result |-> "Campeon"] }

AddQueries == { << >> }

Patches ==
  { << >>,
    [g1 |-> "w"],
    [g1 |-> ""],
    [g2 |-> "L", g2_turn |-> "first"],
    [g2 |-> "null"],
    [special |-> "bye"],
    [special |-> "X"],
    [g1 |-> "X", op_p1 |-> "7"],
    [special |-> "ID", g3 |-> "W"] }

RoundQueries ==
  {WithKey(p, "round_number", "1") : p \in Patches}
    \cup { << >>, [round_number |-> "0", g1 |-> "W"], [round_number |-> "2", g1 |-> "l"] }

NoRequest ==
  [file |-> "", op |-> "none", cust |-> "", id |-> Undef, q |-> << >>,
   resp |-> Failure(Undef), access |-> 0]

Answered(file, op, customerId, id, q, resp, access) ==
  [file |-> file, op |-> op, cust |-> customerId, id |-> id, q |-> q,
   resp |-> resp, access |-> access]

InFlight == BagCardinality(pend)

\* no helper function is being called on its own
NoCall == [fn |-> "none", arg |-> Undef, ret |-> Undef, done |-> FALSE]

\* the table is empty and nothing is in progress
Idle ==
  /\ store = << >>
  /\ pend = EmptyBag
  /\ last = NoRequest
  /\ nmut = 0
  /\ yielded = << >>

Init == Idle /\ call = NoCall

\* A handler has returned a result object and its caller is about to send
\* it with res.json: that continuation runs before any other request's
\* callback, so no other handler step happens while a result is waiting.
Quiet == last.op = "none"

\* a handler that answers after at most one store call
Handle(budget, file, op, customerId, id, q, out) ==
  /\ Quiet
  /\ out.store # store =>
       /\ nmut + InFlight < budget
       /\ Len(out.store) <= MaxTournaments
  /\ store' = out.store
  /\ nmut' = IF out.store # store THEN nmut + 1 ELSE nmut
  /\ yielded' = IF Len(out.store) > Len(store) THEN Append(yielded, << >>) ELSE yielded
  /\ last' = Answered(file, op, customerId, id, q, out.resp, out.access)
  /\ UNCHANGED << pend, call >>

\* the read step of a round mutation
HandleRead(budget, file, op, customerId, id, q, got) ==
  /\ Quiet
  /\ IF got.proceed
     THEN /\ nmut + InFlight < budget
          /\ InFlight < MaxInFlight
          /\ pend' = pend (+) SetToBag({[file |-> file, op |-> op, cust |-> customerId,
                                         id |-> id, q |-> q, snap |-> got.snap,
                                         rounds |-> got.rounds]})
          /\ UNCHANGED << store, last, nmut, yielded, call >>
     ELSE /\ last' = Answered(file, op, customerId, id, q, got.resp, got.access)
          /\ UNCHANGED << store, pend, nmut, yielded, call >>

\* the write step of the round mutation e
HandleWrite(e, out) ==
  /\ Quiet
  /\ pend' = pend (-) SetToBag({e})
  /\ store' = out.store
  /\ nmut' = IF out.resp.ok THEN nmut + 1 ELSE nmut
  /\ yielded' =
       IF out.resp.ok /\ e.op = "add_round"
       THEN LET i == CHOOSE j \in Match(store, e.cust, e.id) : TRUE
                rounds == out.resp.tournament.rounds
            IN  [yielded EXCEPT ![i] = Append(@, rounds[Len(rounds)].round_number)]
       ELSE yielded
  /\ last' = Answered(e.file, e.op, e.cust, e.id, e.q, out.resp, out.access)
  /\ UNCHANGED call

\* res.json(result): the response leaves
respond ==
  /\ ~Quiet
  /\ last' = NoRequest
  /\ UNCHANGED << store, pend, nmut, yielded, call >>

create_tournament_002(budget, faults) ==
  \E c \in Customers, q \in CreateQueries, fail \in faults :
    Handle(budget, "part_002", "create_tournament", c, Undef, q,
           createTournament_002(store, c, q, fail))

set_final_result_002(budget, faults) ==
  \E c \in Customers, id \in Ids, q \in FinalQueries, fail \in faults :
    Handle(budget, "part_002", "set_final_result", c, id, q,
           setFinalResult_002(store, c, id, q, fail))

add_round_002(budget, faults) ==
  \E c \in Customers, id \in Ids, q \in AddQueries, fail \in faults :
    HandleRead(budget, "part_002", "add_round", c, id, q,
               addRound_002(store, c, id, q, fail))

update_round_002(budget, faults) ==
  \E c \in Customers, id \in Ids, q \in RoundQueries, fail \in faults :
    HandleRead(budget, "part_002", "update_round", c, id, q,
               updateRound_002(store, c, id, q, fail))

persist_002(faults) ==
  \E e \in BagToSet(pend), fail \in faults :
    /\ e.file = "part_002"
    /\ HandleWrite(e, persistRounds_002(store, e.cust, e.id, e.rounds, fail))

create_tournament_003(budget, faults) ==
  \E c \in Customers, q \in CreateQueries, fail \in faults :
    Handle(budget, "part_003", "create_tournament", c, Undef, q,
           createTournament_003(store, c, q, fail))

get_tournament_003(budget, faults) ==
  \E c \in Customers, id \in Ids, fail \in faults :
    Handle(budget, "part_003", "get_tournament", c, id, << >>,
           getTournament_003(store, c, id, << >>, fail))

update_tournament_003(budget, faults) ==
  \E c \in Customers, id \in Ids, q \in MetaQueries, fail \in faults :
    Handle(budget, "part_003", "update_tournament", c, id, q,
           updateTournament_003(store, c, id, q, fail))

add_round_003(budget, faults) ==
  \E c \in Customers, id \in Ids, q \in AddQueries, fail \in faults :
    HandleRead(budget, "part_003", "add_round", c, id, q,
               addRound_003(store, c, id, q, fail))

update_round_003(budget, faults) ==
  \E c \in Customers, id \in Ids, q \in RoundQueries, fail \in faults :
    HandleRead(budget, "part_003", "update_round", c, id, q,
               updateRound_003(store, c, id, q, fail))

save_003(faults) ==
  \E e \in BagToSet(pend), fail \in faults :
    /\ e.file = "part_003"
    /\ HandleWrite(e, saveRounds_003(store, e.cust, e.id, e.rounds, fail))

\* the requests of both files, with at most `budget` store writes
Requests(budget, faults) ==
  \/ create_tournament_002(budget, faults)
  \/ set_final_result_002(budget, faults)
  \/ add_round_002(budget, faults)
  \/ update_round_002(budget, faults)
  \/ persist_002(faults)
  \/ create_tournament_003(budget, faults)
  \/ get_tournament_003(budget, faults)
  \/ update_tournament_003(budget, faults)
  \/ add_round_003(budget, faults)
  \/ update_round_003(budget, faults)
  \/ save_003(faults)
  \/ respond

Next == Requests(MaxMutations, NoFaults)

Spec == Init /\ [][Next]_vars

\* the same system followed one store write further
NextDeep == Requests(DeepMutations, NoFaults)

SpecDeep == Init /\ [][NextDeep]_vars

\* the same requests when any store call can be rejected by the store
AnyFault == BOOLEAN
NextFaults == Requests(MaxMutations, AnyFault)
SpecFaults == Init /\ [][NextFaults]_vars

\* the requests on a table that part_003 has filled: the table after
\* create_tournament, add_round, add_round and
\* update_round(round_number=1, special=ID, g3=W) of customer A
SeedStore ==
  LET s1 == createTournament_003(<< >>, "A", [tournament_name |-> "Cup",
                                              tournament_date |-> "2024-05-01"], FALSE).store
      id == s1[1].id
      s2 == saveRounds_003(s1, "A", id, addRound_003(s1, "A", id, << >>, FALSE).rounds,
                           FALSE).store
      s3 == saveRounds_003(s2, "A", id, addRound_003(s2, "A", id, << >>, FALSE).rounds,
                           FALSE).store
      q == [round_number |-> "1", special |-> "ID", g3 |-> "W"]
  IN  saveRounds_003(s3, "A", id, updateRound_003(s3, "A", id, q, FALSE).rounds, FALSE).store

InitSeeded ==
  /\ store = SeedStore
  /\ pend = EmptyBag
  /\ last = NoRequest
  /\ nmut = 0
  /\ yielded = << << 1, 2 >> >>
  /\ call = NoCall

NextSeeded == Requests(SeededMutations, NoFaults)
SpecSeeded == InitSeeded /\ [][NextSeeded]_vars

\* ------------------------------------------------------------------------
\* The handler of each file, from the query of the request: signature,
\* identity, switch (action)
\* ------------------------------------------------------------------------
\* Object.keys(rest).sort() over the parameter names the requests send
KeyOrder ==
  << "action", "customer_id", "format", "g1", "g1_turn", "g2", "g2_turn", "g3",
     "g3_turn", "id", "logged_in_customer_id", "op_p1", "op_p2", "result",
     "round_number", "rounds", "score", "special", "tournament_date",
     "tournament_name", "tournament_type" >>

\* .map((key) => `${key}=${rest[key]}`).join(""), from the i-th key on
RECURSIVE Message(_, _)
Message(rest, i) ==
  IF i > Len(KeyOrder) THEN ""
  ELSE (IF KeyOrder[i] \in DOMAIN rest THEN KeyOrder[i] \o "=" \o rest[KeyOrder[i]] ELSE "")
         \o Message(rest, i + 1)

\* createHmac("sha256", secret).update(message).digest("hex"): a digest is
\* taken to determine its message
Hmac(message) == "hmac(" \o message \o ")"

Without(query, key) == [k \in DOMAIN query \ {key} |-> query[k]]

\* verifyShopifyProxy that accepts any signature that is present
verifyShopifyProxy_presentOnly(query) ==
  IF Falsy(Get(query, "signature")) THEN [valid |-> FALSE, hmacs |-> 0]
  ELSE [valid |-> TRUE, hmacs |-> 1]

\* verifyShopifyProxy: its result, and the number of HMACs it computed
verifyShopifyProxy(query) ==
  IF Falsy(Get(query, "signature")) THEN [valid |-> FALSE, hmacs |-> 0]
  ELSE [valid |-> Hmac(Message(Without(query, "signature"), 1)) = query.signature,
        hmacs |-> 1]

SupportedActions(file) ==
  IF file = "part_002"
  THEN {"list_tournaments", "create_tournament", "add_round", "update_round",
        "set_final_result"}
  ELSE {"list_tournaments", "create_tournament", "get_tournament",
        "update_tournament", "add_round", "update_round"}

\* the branch the handler that tests the customer id for undefined only
Route_undefinedOnly(file, query) ==
  IF ~verifyShopifyProxy(query).valid THEN "unauthorized"
  ELSE IF Get(query, "logged_in_customer_id") = Undef THEN "anonymous"
  ELSE IF Get(query, "action") \in SupportedActions(file) THEN query.action
  ELSE "unknown"

\* the branch the handler of the file takes on the query
Route(file, query) ==
  IF ~verifyShopifyProxy(query).valid THEN "unauthorized"
  ELSE IF Falsy(Get(query, "logged_in_customer_id")) THEN "anonymous"
  ELSE IF Get(query, "action") \in SupportedActions(file) THEN query.action
  ELSE "unknown"

Unauthorized == [ok |-> FALSE, error |-> "Invalid Shopify signature"]
Anonymous == [ok |-> TRUE, logged_in |-> FALSE]
UnknownAction(file) ==
  IF file = "part_002" THEN [ok |-> FALSE, error |-> "Unknown action"]
  ELSE [ok |-> FALSE, error |-> "Unknown action",
        allowed_actions |-> << "list_tournaments", "create_tournament", "get_tournament",
                               "update_tournament", "add_round", "update_round" >>]

\* the rows of the customer (the dates of this model are all the same day)
RowsOf(st, customerId) == SelectSeq(st, LAMBDA row : row.customer_id = customerId)

\* part_002: data ?? [], whatever the error
listTournaments_002(st, customerId, fail) ==
  Outcome([ok |-> TRUE, tournaments |-> IF fail THEN << >> ELSE RowsOf(st, customerId)],
          1, st)

\* part_003: throws on an error
listTournaments_003(st, customerId, fail) ==
  IF fail THEN Outcome(Uncaught(StoreDownMessage), 1, st)
  ELSE Outcome([ok |-> TRUE, tournaments |-> RowsOf(st, customerId)], 1, st)

\* part_003: try { switch ... } catch (err): what a call returns, or the
\* "Internal error" result when it threw; part_002 has no catch
Caught(file, out) ==
  IF file = "part_003" /\ "uncaught" \in DOMAIN out.resp
  THEN [out EXCEPT !.resp = [ok |-> FALSE, error |-> "Internal error",
                             details |-> out.resp.uncaught]]
  ELSE out

\* the cases of the switch that end with one call, and the returns before it
Dispatch(file, op, st, query, fail) ==
  LET c == Get(query, "logged_in_customer_id")
      id == Get(query, "id")
  IN  CASE op = "unauthorized" -> Outcome(Unauthorized, 0, st)
        [] op = "anonymous" -> Outcome(Anonymous, 0, st)
        [] op = "unknown" -> Outcome(UnknownAction(file), 0, st)
        [] op = "list_tournaments" /\ file = "part_002" -> listTournaments_002(st, c, fail)
        [] op = "list_tournaments" /\ file = "part_003" -> listTournaments_003(st, c, fail)
        [] op = "create_tournament" /\ file = "part_002" ->
             createTournament_002(st, c, query, fail)
        [] op = "create_tournament" /\ file = "part_003" ->
             createTournament_003(st, c, query, fail)
        [] op = "get_tournament" -> getTournament_003(st, c, id, query, fail)
        [] op = "update_tournament" -> updateTournament_003(st, c, id, query, fail)
        [] op = "set_final_result" -> setFinalResult_002(st, c, id, query, fail)

\* the cases of the switch that read the rounds and then write them
DispatchRead(file, op, st, query, fail) ==
  LET c == Get(query, "logged_in_customer_id")
      id == Get(query, "id")
  IN  CASE op = "add_round" /\ file = "part_002" -> addRound_002(st, c, id, query, fail)
        [] op = "add_round" /\ file = "part_003" -> addRound_003(st, c, id, query, fail)
        [] op = "update_round" /\ file = "part_002" -> updateRound_002(st, c, id, query, fail)
        [] op = "update_round" /\ file = "part_003" -> updateRound_003(st, c, id, query, fail)

\* the queries before they are signed
UnsignedQueries ==
  LET actions ==
        { [action |-> "list_tournaments"],
          [action |-> "create_tournament", tournament_name |-> "Cup",
           tournament_date |-> "2024-05-01"],
          [action |-> "get_tournament", id |-> "t1"],
          [action |-> "update_tournament", id |-> "t1", result |-> "Top4"],
          [action |-> "add_round", id |-> "t1"],
          [action |-> "update_round", id |-> "t1", round_number |-> "1", op_p1 |-> "7"],
          [action |-> "set_final_result", id |-> "t1", result |-> "Top8"],
          [action |-> "bogus", id |-> "t1"],
          [id |-> "t1"] }
  IN  actions
        \cup {WithKey(a, "logged_in_customer_id", c) : a \in actions, c \in {"", "A"}}

Sign(query) == WithKey(query, "signature", Hmac(Message(query, 1)))

\* each query unsigned, signed, with an empty or a made-up signature, and
\* with the signature of the same query from customer A
SignedQueries ==
  UnsignedQueries
    \cup {Sign(query) : query \in UnsignedQueries}
    \cup {WithKey(query, "signature", sig) : query \in UnsignedQueries,
                                              sig \in {"", "deadbeef"}}
    \cup {WithKey(query, "signature",
                  Sign(WithKey(query, "logged_in_customer_id", "A")).signature) :
            query \in UnsignedQueries}

\* the branch each handler takes on each query
Routes == [file \in {"part_002", "part_003"} |->
            [query \in SignedQueries |-> Route(file, query)]]

\* one request to the handler of part_002, up to its result or to the read
\* of its round mutation
handler_002(budget, faults) ==
  \E query \in SignedQueries, fail \in faults :
    LET op == Routes["part_002"][query]
        c == Get(query, "logged_in_customer_id")
        id == Get(query, "id")
    IN  IF op \in {"add_round", "update_round"}
        THEN HandleRead(budget, "part_002", op, c, id, query,
                        DispatchRead("part_002", op, store, query, fail))
        ELSE Handle(budget, "part_002", op, c, id, query,
                    Dispatch("part_002", op, store, query, fail))

\* the same for part_003, inside its try ... catch
handler_003(budget, faults) ==
  \E query \in SignedQueries, fail \in faults :
    LET op == Routes["part_003"][query]
        c == Get(query, "logged_in_customer_id")
        id == Get(query, "id")
    IN  IF op \in {"add_round", "update_round"}
        THEN HandleRead(budget, "part_003", op, c, id, query,
                        Caught("part_003", DispatchRead("part_003", op, store, query, fail)))
        ELSE Handle(budget, "part_003", op, c, id, query,
                    Caught("part_003", Dispatch("part_003", op, store, query, fail)))

NextRouter ==
  \/ handler_002(RouterMutations, AnyFault)
  \/ handler_003(RouterMutations, AnyFault)
  \/ persist_002(AnyFault)
  \/ save_003(AnyFault)
  \/ respond

SpecRouter == Init /\ [][NextRouter]_vars

\* a row written before the handlers of these files: its round has no
\* opponent_deck (sanitizeRounds and part_003's updateRound provide for it)
LegacyRow ==
  [id |-> NewId(1), customer_id |-> "A", tournament_name |-> "Cup",
   tournament_date |-> "2024-05-01", format |-> Null, tournament_type |-> Null,
   result |-> Null, score |-> EmptyObject,
   rounds |-> << [round_number |-> 1, games |-> NullGames, special |-> Null] >>]

InitLegacy ==
  /\ store = << LegacyRow >>
  /\ pend = EmptyBag
  /\ last = NoRequest
  /\ nmut = 0
  /\ yielded = << << >> >>
  /\ call = NoCall

SpecLegacy == InitLegacy /\ [][NextRouter]_vars

\* ------------------------------------------------------------------------
\* The helper functions called on their own: one call, of one function,
\* on one argument
\* ------------------------------------------------------------------------
\* the results of the three games of a round
GameTriples ==
  { << Null, Null, Null >>, << "W", Null, Null >>, << "L", Null, Null >>,
    << "T", Null, Null >>, << Null, Null, "W" >>, << "W", "L", Null >>,
    << "L", "W", Null >>, << "W", "W", Null >>, << "L", "L", Null >>,
    << "W", "L", "W" >>, << "W", "L", "L" >>, << "W", "L", "T" >>,
    << "T", "T", "T" >> }

GamesOf(t) == [n \in 1..3 |-> [game |-> n, result |-> t[n], turn |-> Null]]

\* the rounds computeScore is given: normal rounds, special rounds, and a
\* special round that still carries games
ScoreRounds ==
  {[NewRound(1) EXCEPT !.games = GamesOf(t)] : t \in GameTriples}
    \cup {[NewRound(1) EXCEPT !.special = sp] : sp \in SpecialValues}
    \cup {[NewRound(1) EXCEPT !.special = "BYE", !.games = GamesOf(<< "L", "L", Null >>)]}

ScoreInputs == UNION {[1..n -> ScoreRounds] : n \in 0..MaxRounds}

\* the values the normalizers are given
NormInputs ==
  {Undef, Null, "", "null", "w", "W", "l", "L", "t", "T", "x", "X", "7",
   "first", "FIRST", "second", "SECOND", "bye", "BYE", "id", "ID",
   "no_show", "NO_SHOW"}

Calling(fn, arg) == [fn |-> fn, arg |-> arg, ret |-> Undef, done |-> FALSE]

InitPure ==
  /\ Idle
  /\ call \in {Calling("computeScore", R) : R \in ScoreInputs}
              \cup {Calling(fn, v) : fn \in {"normalizeResult", "normalizeTurn",
                                              "normalizeSpecial"},
                                     v \in NormInputs}

Returns(fn, ret) ==
  /\ call.fn = fn
  /\ ~call.done
  /\ call' = [call EXCEPT !.ret = ret, !.done = TRUE]
  /\ UNCHANGED << store, pend, last, nmut, yielded >>

call_computeScore == Returns("computeScore", computeScore(call.arg))
call_normalizeResult == Returns("normalizeResult", normalizeResult(call.arg))
call_normalizeTurn == Returns("normalizeTurn", normalizeTurn(call.arg))
call_normalizeSpecial == Returns("normalizeSpecial", normalizeSpecial(call.arg))

NextPure ==
  \/ call_computeScore
  \/ call_normalizeResult
  \/ call_normalizeTurn
  \/ call_normalizeSpecial

SpecPure == InitPure /\ [][NextPure]_vars

\* ------------------------------------------------------------------------
\* Vocabulary of the properties
\* ------------------------------------------------------------------------
\* the step in which a handler returns its result
Answering == Quiet /\ ~Quiet'

RoundNumbers(rounds) == {rounds[i].round_number : i \in DOMAIN rounds}

\* the row the last request addressed, when the caller owns one with that id
OwnedRows(st, req) == Match(st, req.cust, req.id)

PatchFields ==
  {"op_p1", "op_p2", "special", "g1", "g2", "g3", "g1_turn", "g2_turn", "g3_turn"}

\* the stored value the patch parameter k is about
Field(r, k) ==
  CASE k = "op_p1" -> r.opponent_deck.p1
    [] k = "op_p2" -> r.opponent_deck.p2
    [] k = "special" -> Get(r, "special")
    [] k = "g1" -> r.games[1].result
    [] k = "g2" -> r.games[2].result
    [] k = "g3" -> r.games[3].result
    [] k = "g1_turn" -> r.games[1].turn
    [] k = "g2_turn" -> r.games[2].turn
    [] k = "g3_turn" -> r.games[3].turn

NullOf(k) == IF k \in {"op_p1", "op_p2"} THEN NoNumber ELSE Null

\* the patch has an enumerated field that is present and outside its enumeration
PatchInvalid(q) ==
  \/ Get(q, "special") # Undef /\ normalizeSpecial(q.special) = Undef
  \/ \E k \in {"g1", "g2", "g3"} : Get(q, k) # Undef /\ normalizeResult(q[k]) = Undef
  \/ \E k \in {"g1_turn", "g2_turn", "g3_turn"} :
       Get(q, k) # Undef /\ normalizeTurn(q[k]) = Undef

InvalidFieldErrors ==
  {"Invalid special value", "Invalid g1 value", "Invalid g2 value", "Invalid g3 value",
   "Invalid g1_turn value", "Invalid g2_turn value", "Invalid g3_turn value"}

ValidationErrors ==
  InvalidFieldErrors \cup
  {"Missing required fields", "Invalid round_number", "Missing or invalid round_number",
   "Invalid final result", "No fields to update", "Missing id", "Missing tournament id"}

\* ------------------------------------------------------------------------
\* C1  In every reachable state the stored score of every tournament is
\*     computeScore of its stored rounds.
\* ------------------------------------------------------------------------
C1_ScoreIsComputedFromRounds ==
  \A i \in DOMAIN store : store[i].score = computeScore(store[i].rounds)

\* ------------------------------------------------------------------------
\* C2  An update_round on an owned tournament and an existing round whose
\*     patch has an invalid field returns a validation error and writes
\*     nothing, whatever else the patch holds.
\* ------------------------------------------------------------------------
C2_UpdateRoundAllOrNothing ==
  [][ ( /\ Answering
        /\ last'.op = "update_round"
        /\ PatchInvalid(last'.q)
        /\ \E i \in OwnedRows(store, last') :
             FindIndex(store[i].rounds, toIntOrNull(Get(last'.q, "round_number"))) # 0 )
      => ( /\ ~last'.resp.ok
           /\ last'.resp.error \in InvalidFieldErrors
           /\ store' = store ) ]_vars

\* ------------------------------------------------------------------------
\* C3  In every reachable state a stored round whose special is BYE, NO_SHOW
\*     or ID has its three games null.
\* ------------------------------------------------------------------------
C3_SpecialRoundsHaveNullGames ==
  \A i \in DOMAIN store : \A j \in DOMAIN store[i].rounds :
    Get(store[i].rounds[j], "special") \in SpecialValues
      => store[i].rounds[j].games = NullGames

\* ------------------------------------------------------------------------
\* C4  In every reachable state every stored round has exactly three game
\*     slots, numbered 1, 2, 3 in that order.
\* ------------------------------------------------------------------------
C4_ThreeGameSlots ==
  \A i \in DOMAIN store : \A j \in DOMAIN store[i].rounds :
    LET r == store[i].rounds[j]
    IN  /\ "games" \in DOMAIN r
        /\ Len(r.games) = 3
        /\ \A n \in 1..3 : r.games[n].game = n

\* a round that update_round calls have filled game by game
C4_Witness ==
  /\ last.op = "update_round"
  /\ last.resp.ok
  /\ \E i \in DOMAIN store : \E j \in DOMAIN store[i].rounds :
       /\ store[i].rounds[j].games[2].result = "L"
       /\ store[i].rounds[j].games[2].turn = "FIRST"
       /\ store[i].rounds[j].games[1].result = Null

\* ------------------------------------------------------------------------
\* C5  (as claimed) The numbers successful add_round calls return for a
\*     tournament are strictly increasing in the order the calls complete,
\*     and stored round numbers are pairwise distinct.
\* ------------------------------------------------------------------------
DistinctRoundNumbers(rounds) ==
  \A j, k \in DOMAIN rounds : j # k => rounds[j].round_number # rounds[k].round_number

C5_YieldedStrictlyIncreasing ==
  /\ \A i \in DOMAIN yielded : \A j, k \in DOMAIN yielded[i] :
       j < k => yielded[i][j] < yielded[i][k]
  /\ \A i \in DOMAIN store : DistinctRoundNumbers(store[i].rounds)

\* C5  (amended) add_round appends to the rounds it read one round numbered
\*     max(round_number read, default 0) + 1, greater than every number it
\*     read, and stored round numbers are pairwise distinct in every state.
C5_NextNumberFromSnapshot ==
  /\ \A e \in BagToSet(pend) :
       e.op = "add_round" =>
         /\ Len(e.rounds) = Len(e.snap) + 1
         /\ SubSeq(e.rounds, 1, Len(e.snap)) = e.snap
         /\ \A n \in RoundNumbers(e.snap) \cup {0} :
              e.rounds[Len(e.rounds)].round_number > n
         /\ e.rounds[Len(e.rounds)].round_number - 1 \in RoundNumbers(e.snap) \cup {0}
  /\ \A i \in DOMAIN store : DistinctRoundNumbers(store[i].rounds)
  /\ \A i \in DOMAIN yielded : \A j \in DOMAIN yielded[i] : yielded[i][j] >= 1

\* two add_round calls, one after the other, returned 1 and 2
C5_Witness ==
  \E i \in DOMAIN store :
    /\ yielded[i] = << 1, 2 >>
    /\ RoundNumbers(store[i].rounds) = {1, 2}

\* ------------------------------------------------------------------------
\* C6  The write of a round mutation is unguarded: it returns ok and
\*     replaces the stored rounds by the rounds the request computed from
\*     what it read, whatever has been stored since (so a request that
\*     read before another one wrote discards that write).
\* ------------------------------------------------------------------------
C6_WriteReplacesRounds ==
  [][ \A e \in BagToSet(pend) :
        (Answering /\ pend' = pend (-) SetToBag({e}) /\ last'.q = e.q /\ last'.op = e.op
           /\ last'.file = e.file /\ last'.cust = e.cust /\ last'.id = e.id)
        => /\ last'.resp.ok
           /\ \A i \in Match(store', e.cust, e.id) :
                store'[i].rounds =
                  SerializeRounds(IF e.file = "part_002" THEN sanitizeRounds(e.rounds)
                                  ELSE e.rounds) ]_vars

\* two add_round calls both returned ok with round 1, one round is stored
C6_Witness ==
  \E i \in DOMAIN store :
    /\ yielded[i] = << 1, 1 >>
    /\ Len(store[i].rounds) = 1
    /\ pend = EmptyBag

\* ------------------------------------------------------------------------
\* C7  Whenever a request can arrive, a call of any id-taking action with
\*     the id of another customer's tournament has the outcome the same
\*     call has with an id no row carries, and writes nothing.
\* ------------------------------------------------------------------------
NobodyId == NewId(Len(store) + 1)

SameAsNobody(out, nobody) == out.resp = nobody.resp /\ out.access = nobody.access

C7_ForeignIdIsNotFound ==
  Quiet =>
    \A c \in Customers, i \in DOMAIN store, fail \in BOOLEAN :
      store[i].customer_id # c =>
        LET id == store[i].id
        IN  /\ LET out == getTournament_003(store, c, id, << >>, fail)
               IN  /\ SameAsNobody(out, getTournament_003(store, c, NobodyId, << >>, fail))
                   /\ out.store = store
            /\ \A q \in MetaQueries :
                 LET out == updateTournament_003(store, c, id, q, fail)
                 IN  /\ SameAsNobody(out, updateTournament_003(store, c, NobodyId, q, fail))
                     /\ out.store = store
            /\ \A q \in FinalQueries :
                 LET out == setFinalResult_002(store, c, id, q, fail)
                 IN  /\ SameAsNobody(out, setFinalResult_002(store, c, NobodyId, q, fail))
                     /\ out.store = store
            /\ \A q \in AddQueries :
                 /\ addRound_002(store, c, id, q, fail)
                      = addRound_002(store, c, NobodyId, q, fail)
                 /\ ~addRound_002(store, c, id, q, fail).proceed
                 /\ addRound_003(store, c, id, q, fail)
                      = addRound_003(store, c, NobodyId, q, fail)
                 /\ ~addRound_003(store, c, id, q, fail).proceed
            /\ \A q \in RoundQueries :
                 /\ updateRound_002(store, c, id, q, fail)
                      = updateRound_002(store, c, NobodyId, q, fail)
                 /\ ~updateRound_002(store, c, id, q, fail).proceed
                 /\ updateRound_003(store, c, id, q, fail)
                      = updateRound_003(store, c, NobodyId, q, fail)
                 /\ ~updateRound_003(store, c, id, q, fail).proceed

\* a customer has just called update_tournament on another customer's row
C7_Witness ==
  /\ last.op = "update_tournament"
  /\ Get(last.q, "result") = "Top4"
  /\ ~last.resp.ok
  /\ \E i \in DOMAIN store : store[i].id = last.id /\ store[i].customer_id # last.cust

\* ------------------------------------------------------------------------
\* C8  An update_round on an owned tournament whose round_number is a
\*     number no stored round carries answers "Round not found" after its
\*     read and writes nothing; no such request goes on to the write.
\* ------------------------------------------------------------------------
C8_UnknownRoundIsNotFound ==
  [][ /\ ( /\ Answering
           /\ pend' = pend
           /\ last'.op = "update_round"
           /\ ~FalsyNumber(toIntOrNull(Get(last'.q, "round_number")))
           /\ \E i \in OwnedRows(store, last') :
                FindIndex(store[i].rounds, toIntOrNull(Get(last'.q, "round_number"))) = 0 )
         => ( /\ last'.resp = Failure("Round not found")
              /\ last'.access = 1
              /\ store' = store )
      /\ \A e \in BagToSet(pend') :
           e.op = "update_round" =>
             toIntOrNull(Get(e.q, "round_number")) \subseteq RoundNumbers(e.snap) ]_vars

\* round 2 was asked of a tournament that has only round 1
C8_Witness ==
  /\ last.op = "update_round"
  /\ last.resp = Failure("Round not found")
  /\ \E i \in OwnedRows(store, last) : RoundNumbers(store[i].rounds) = {1}

\* ------------------------------------------------------------------------
\* C9  A successful update_round leaves every field of its round whose
\*     parameter is absent as the call read it, and stores null in every
\*     field sent as "" or "null".  (The games of a round that the call
\*     leaves BYE, NO_SHOW or ID are null by C3 and are not looked at.)
\* ------------------------------------------------------------------------
GameFields == {"g1", "g2", "g3", "g1_turn", "g2_turn", "g3_turn"}

C9_OnlyPatchedFieldsChange ==
  [][ \A e \in BagToSet(pend) :
        ( /\ Answering
          /\ pend' = pend (-) SetToBag({e})
          /\ e.op = "update_round"
          /\ last'.op = "update_round" /\ last'.q = e.q /\ last'.file = e.file
          /\ last'.cust = e.cust /\ last'.id = e.id
          /\ last'.resp.ok )
        => LET rn == toIntOrNull(Get(e.q, "round_number"))
               old == e.snap[FindIndex(e.snap, rn)]
               rounds == last'.resp.tournament.rounds
               new == rounds[FindIndex(rounds, rn)]
           IN  \A k \in PatchFields :
                 (k \in GameFields /\ Get(new, "special") \in SpecialValues)
                 \/ /\ Get(e.q, k) = Undef => Field(new, k) = Field(old, k)
                    /\ Get(e.q, k) \in {"", "null"} => Field(new, k) = NullOf(k) ]_vars

\* ------------------------------------------------------------------------
\* C10 A request that is answered with a validation failure has issued no
\*     store call.
\* ------------------------------------------------------------------------
C10_ValidationBeforeStore ==
  (~Quiet /\ ~last.resp.ok /\ last.resp.error \in ValidationErrors) => last.access = 0

\* ------------------------------------------------------------------------
\* C11  In every reachable state the stored result of every tournament is
\*      one of the final placements.
\* ------------------------------------------------------------------------
C11_ResultIsAPlacement == \A i \in DOMAIN store : store[i].result \in FinalResults

\* ------------------------------------------------------------------------
\* C12  set_final_result with a result outside the placements (or none)
\*      answers "Invalid final result" without a store call and leaves the
\*      table as it is; with a placement and an owned id it returns ok and
\*      changes exactly the result of that row, to the placement sent.
\* ------------------------------------------------------------------------
C12_FinalResultIsChecked ==
  [][ (Answering /\ last'.op = "set_final_result") =>
        LET q == last'.q
            rows == OwnedRows(store, last')
        IN  IF Get(q, "result") \notin FinalResults
            THEN /\ ~last'.resp.ok
                 /\ last'.resp.error = "Invalid final result"
                 /\ last'.access = 0
                 /\ store' = store
            ELSE IF rows # {}
            THEN /\ last'.resp.ok
                 /\ \A i \in DOMAIN store :
                      store'[i] = IF i \in rows THEN [store[i] EXCEPT !.result = q.result]
                                  ELSE store[i]
                 /\ \A i \in rows : last'.resp.tournament = store'[i]
            ELSE store' = store ]_vars

\* a set_final_result with Top8 has been answered ok and Top8 is stored
C12_Witness ==
  /\ last.op = "set_final_result"
  /\ last.resp.ok
  /\ last.q = [result |-> "Top8"]
  /\ \E i \in OwnedRows(store, last) : store[i].result = "Top8"

\* ------------------------------------------------------------------------
\* C13  create_tournament with an empty or absent tournament_name or
\*      tournament_date answers "Missing required fields" without a store
\*      call, and the table is as it was.
\* ------------------------------------------------------------------------
C13_CreateNeedsNameAndDate ==
  [][ (/\ Answering
       /\ last'.op = "create_tournament"
       /\ \/ Get(last'.q, "tournament_name") \in {Undef, ""}
          \/ Get(last'.q, "tournament_date") \in {Undef, ""})
      => /\ ~last'.resp.ok
         /\ last'.resp.error = "Missing required fields"
         /\ last'.access = 0
         /\ store' = store ]_vars

\* a create_tournament without a date was rejected while a row is stored
C13_Witness ==
  /\ last.op = "create_tournament"
  /\ Get(last.q, "tournament_date") = Undef
  /\ last.resp.error = "Missing required fields"
  /\ Len(store) = 1

\* ------------------------------------------------------------------------
\* C14  A successful create_tournament appends one row, owned by the
\*      caller, with rounds [], result SinTop when none was sent, and score
\*      {wins: 0, losses: 0, ties: 0, text: "0-0-0"}, and returns that row.
\* ------------------------------------------------------------------------
C14_CreatedRecord ==
  [][ (Answering /\ last'.op = "create_tournament" /\ last'.resp.ok) =>
        /\ Len(store') = Len(store) + 1
        /\ SubSeq(store', 1, Len(store)) = store
        /\ LET row == store'[Len(store')]
           IN  /\ last'.resp.tournament = row
               /\ row.customer_id = last'.cust
               /\ row.rounds = << >>
               /\ Get(last'.q, "result") = Undef => row.result = "SinTop"
               /\ row.score = [wins |-> 0, losses |-> 0, ties |-> 0, text |-> "0-0-0"] ]_vars

\* ------------------------------------------------------------------------
\* C15  update_tournament writes, in the owned row, the parameters sent
\*      that are in the allow-list and nothing else; with no allow-listed
\*      parameter it answers "No fields to update" without a store call.
\* ------------------------------------------------------------------------
C15_OnlyAllowedFieldsWritten ==
  [][ (Answering /\ last'.op = "update_tournament") =>
        LET q == last'.q
            sent == {k \in AllowedFields : Get(q, k) # Undef}
            rows == OwnedRows(store, last')
        IN  /\ (sent = {} /\ last'.id # Undef) =>
                 /\ last'.resp.error = "No fields to update"
                 /\ last'.access = 0
            /\ ~last'.resp.ok => store' = store
            /\ last'.resp.ok =>
                 /\ sent # {} /\ rows # {}
                 /\ DOMAIN store' = DOMAIN store
                 /\ \A i \in DOMAIN store :
                      /\ DOMAIN store'[i] = DOMAIN store[i]
                      /\ \A k \in DOMAIN store[i] :
                           store'[i][k] = IF i \in rows /\ k \in sent THEN q[k]
                                          ELSE store[i][k] ]_vars

\* an update_tournament that also sent score was answered ok: the name is
\* the one sent and the score is not
C15_Witness ==
  /\ last.op = "update_tournament"
  /\ last.resp.ok
  /\ Get(last.q, "score") = "9-9-9"
  /\ \E i \in OwnedRows(store, last) :
       /\ store[i].tournament_name = "Open"
       /\ store[i].score \in {EmptyObject, computeScore(<< >>)}

\* ------------------------------------------------------------------------
\* C16  Right after a successful update_tournament, the same call again
\*      leaves the stored table as it is and returns the same response.
\* ------------------------------------------------------------------------
C16_UpdateTournamentIdempotent ==
  (last.op = "update_tournament" /\ last.resp.ok) =>
    LET again == updateTournament_003(store, last.cust, last.id, last.q, FALSE)
    IN  again.store = store /\ again.resp = last.resp

\* an update_tournament that changed the stored name was answered ok
C16_Witness ==
  /\ last.op = "update_tournament"
  /\ last.resp.ok
  /\ Get(last.q, "tournament_name") = "Open"
  /\ last.resp.tournament.tournament_name = "Open"

\* ------------------------------------------------------------------------
\* C17  For every round collection R, computeScore(R) has
\*      wins + losses + ties <= |R|, with equality exactly when R has no
\*      non-special round whose game results are all null.
\* ------------------------------------------------------------------------
Unreported(r) ==
  /\ Get(r, "special") \notin SpecialValues
  /\ \A i \in DOMAIN r.games : r.games[i].result = Null

Scored == call.fn = "computeScore" /\ call.done

C17_TalliesBoundedByRounds ==
  Scored =>
    LET R == call.arg
        total == call.ret.wins + call.ret.losses + call.ret.ties
    IN  /\ total <= Len(R)
        /\ total = Len(R) <=> ~ \E i \in DOMAIN R : Unreported(R[i])

\* three rounds were scored, one of them unreported: the tallies sum to 2
C17_Witness ==
  /\ Scored
  /\ Len(call.arg) = 3
  /\ Cardinality({i \in DOMAIN call.arg : Unreported(call.arg[i])}) = 1
  /\ call.ret.wins + call.ret.losses + call.ret.ties = 2

\* ------------------------------------------------------------------------
\* C18  computeScore classifies each round on its own: BYE and NO_SHOW are
\*      a win, ID a tie, a normal round with no reported game nothing,
\*      otherwise a win when W games outnumber L games, a loss when L
\*      outnumber W, a tie when they are level; the text is
\*      "wins-losses-ties".
\* ------------------------------------------------------------------------
Reported(r, res) == Cardinality({i \in DOMAIN r.games : r.games[i].result = res})

IsWin(r) ==
  \/ Get(r, "special") \in {"BYE", "NO_SHOW"}
  \/ Get(r, "special") \notin SpecialValues /\ Reported(r, "W") > Reported(r, "L")

IsLoss(r) == Get(r, "special") \notin SpecialValues /\ Reported(r, "L") > Reported(r, "W")

IsTie(r) ==
  \/ Get(r, "special") = "ID"
  \/ /\ Get(r, "special") \notin SpecialValues
     /\ ~Unreported(r)
     /\ Reported(r, "W") = Reported(r, "L")

Tally(R, Is(_)) == Cardinality({i \in DOMAIN R : Is(R[i])})

C18_RoundsClassifiedOneByOne ==
  Scored =>
    LET R == call.arg
        w == Tally(R, IsWin)
        l == Tally(R, IsLoss)
        t == Tally(R, IsTie)
    IN  call.ret = [wins |-> w, losses |-> l, ties |-> t,
                    text |-> ToString(w) \o "-" \o ToString(l) \o "-" \o ToString(t)]

\* [BYE, NO_SHOW, ID] was scored 2-0-1
C18_Witness ==
  /\ Scored
  /\ Len(call.arg) = 3
  /\ << call.arg[1].special, call.arg[2].special, call.arg[3].special >>
       = << "BYE", "NO_SHOW", "ID" >>
  /\ call.ret = [wins |-> 2, losses |-> 0, ties |-> 1, text |-> "2-0-1"]

\* ------------------------------------------------------------------------
\* C19  Each normalizer maps "", "null" and null to null, matches its
\*      enumeration whatever the case, and returns for a value that is
\*      present and outside the enumeration an outcome that is not the one
\*      it returns for an absent value, not null and not an enum value.
\* ------------------------------------------------------------------------
EnumOf(fn) ==
  CASE fn = "normalizeResult" -> {"W", "L", "T"}
    [] fn = "normalizeTurn" -> {"FIRST", "SECOND"}
    [] fn = "normalizeSpecial" -> {"ID", "NO_SHOW", "BYE"}

\* what the normalizer fn returns for an absent value
AbsentOutcome(fn) ==
  CASE fn = "normalizeResult" -> normalizeResult(Undef)
    [] fn = "normalizeTurn" -> normalizeTurn(Undef)
    [] fn = "normalizeSpecial" -> normalizeSpecial(Undef)

C19_InvalidIsNotAbsent ==
  (call.fn \in {"normalizeResult", "normalizeTurn", "normalizeSpecial"} /\ call.done) =>
    LET v == call.arg
        enum == EnumOf(call.fn)
    IN  IF v = Undef THEN TRUE
        ELSE IF v \in {Null, "", "null"} THEN call.ret = Null
        ELSE IF toUpperCase(v) \in enum THEN call.ret = toUpperCase(v)
        ELSE /\ call.ret # AbsentOutcome(call.fn)
             /\ call.ret # Null
             /\ call.ret \notin enum

\* ------------------------------------------------------------------------
\* C20  The response of a request that the store rejected is not the
\*      response the same request gets when no row matches its id and
\*      owner, and is not a validation failure.
\* ------------------------------------------------------------------------
\* the response of the request when none of its store calls is rejected
\* and no row carries its id
NotFoundResponse(st, req) ==
  LET id == NewId(Len(st) + 1)
  IN  CASE req.op = "get_tournament" ->
             getTournament_003(st, req.cust, id, req.q, FALSE).resp
        [] req.op = "update_tournament" ->
             updateTournament_003(st, req.cust, id, req.q, FALSE).resp
        [] req.op = "set_final_result" ->
             setFinalResult_002(st, req.cust, id, req.q, FALSE).resp
        [] req.op = "add_round" /\ req.file = "part_002" ->
             addRound_002(st, req.cust, id, req.q, FALSE).resp
        [] req.op = "add_round" /\ req.file = "part_003" ->
             addRound_003(st, req.cust, id, req.q, FALSE).resp
        [] req.op = "update_round" /\ req.file = "part_002" ->
             updateRound_002(st, req.cust, id, req.q, FALSE).resp
        [] req.op = "update_round" /\ req.file = "part_003" ->
             updateRound_003(st, req.cust, id, req.q, FALSE).resp

\* the request just answered failed at a store call: it addressed a row
\* its caller owns (or was an insert), reached the store, and its error is
\* none of the handlers' own rejections
StoreRejected ==
  /\ Answering
  /\ ~last'.resp.ok
  /\ last'.access >= 1
  /\ last'.resp.error \notin ValidationErrors \cup {"Round not found"}
  /\ last'.op = "create_tournament" \/ OwnedRows(store, last') # {}

C20_StoreErrorIsDistinct ==
  [][ (StoreRejected /\ last'.op # "create_tournament")
        => last'.resp # NotFoundResponse(store, last') ]_vars

\* ------------------------------------------------------------------------
\* C21  A request whose signature is missing or is not the HMAC of its
\*      other parameters is answered "Invalid Shopify signature": no case
\*      of the switch is entered, no store call is issued, and nothing is
\*      written; for a missing signature no HMAC is computed.
\* ------------------------------------------------------------------------
BadSignature(q) ==
  \/ Get(q, "signature") \in {Undef, ""}
  \/ q.signature # Hmac(Message(Without(q, "signature"), 1))

C21_SignatureFirst ==
  [][ /\ (Answering /\ BadSignature(last'.q)) =>
           /\ last'.resp = Unauthorized
           /\ last'.op = "unauthorized"
           /\ last'.access = 0
           /\ store' = store /\ pend' = pend
           /\ Get(last'.q, "signature") = Undef => verifyShopifyProxy(last'.q).hmacs = 0
      /\ \A e \in BagToSet(pend') : ~BadSignature(e.q) ]_vars

\* a set_final_result of customer A with a made-up signature was refused
\* while A's tournament is stored
C21_Witness ==
  /\ last.op = "unauthorized"
  /\ Get(last.q, "signature") = "deadbeef"
  /\ Get(last.q, "action") = "set_final_result"
  /\ Get(last.q, "logged_in_customer_id") = "A"
  /\ \E i \in DOMAIN store : store[i].id = last.q.id /\ store[i].customer_id = "A"

\* ------------------------------------------------------------------------
\* C22  A correctly signed request without logged_in_customer_id, or with
\*      an empty one, is answered exactly {ok: true, logged_in: false},
\*      whatever its action; no store call is issued, nothing is written.
\* ------------------------------------------------------------------------
NotLoggedIn(q) == Get(q, "logged_in_customer_id") \in {Undef, ""}

SevenActions ==
  {"list_tournaments", "create_tournament", "get_tournament", "update_tournament",
   "add_round", "update_round", "set_final_result"}

C23_SevenActionsDispatched ==
  [][ (Answering /\ ~BadSignature(last'.q) /\ ~NotLoggedIn(last'.q)) =>
        IF Get(last'.q, "action") \in SevenActions
        THEN last'.op = last'.q.action
        ELSE /\ ~last'.resp.ok
             /\ last'.resp.error = "Unknown action"
             /\ "allowed_actions" \in DOMAIN last'.resp
             /\ last'.access = 0
             /\ store' = store ]_vars

\* ------------------------------------------------------------------------
\* C24  Every request ends with a result object that has a boolean ok.
\* ------------------------------------------------------------------------
C24_AlwaysAStructuredResult ==
  [][ Answering => ("ok" \in DOMAIN last'.resp /\ last'.resp.ok \in BOOLEAN) ]_vars

\* ------------------------------------------------------------------------
\* C25  A successful add_round appends, to the rounds it read, one round
\*      with special null, opponent_deck {p1: null, p2: null} and three
\*      games with null result and turn; the stored tallies (wins, losses,
\*      ties) are the ones stored before.  (Looked at when nothing was
\*      written between the read and the write and tallies were stored.)
\* ------------------------------------------------------------------------
\* the step is the write of the round mutation e, answered ok
WriteOf(e) ==
  /\ Answering
  /\ pend' = pend (-) SetToBag({e})
  /\ last'.op = e.op /\ last'.file = e.file /\ last'.cust = e.cust
  /\ last'.id = e.id /\ last'.q = e.q
  /\ last'.resp.ok

Tallies(score) == [k \in {"wins", "losses", "ties"} |-> Get(score, k)]

C25_AddRoundKeepsTallies ==
  [][ \A e \in BagToSet(pend) :
        (WriteOf(e) /\ e.op = "add_round") =>
          \A i \in Match(store, e.cust, e.id) :
            LET new == store'[i].rounds
            IN  /\ Len(new) = Len(e.snap) + 1
                /\ Get(new[Len(new)], "special") = Null
                /\ Get(new[Len(new)], "opponent_deck") = NullDeck
                /\ Get(new[Len(new)], "games") = NullGames
                /\ (store[i].rounds = e.snap /\ "wins" \in DOMAIN store[i].score) =>
                     Tallies(store'[i].score) = Tallies(store[i].score) ]_vars

\* ------------------------------------------------------------------------
\* C26  computeScore gives every permutation of a round collection the
\*      score it gives the collection.
\* ------------------------------------------------------------------------
PermutationsOf(R) ==
  {[i \in DOMAIN R |-> R[p[i]]] :
     p \in {f \in [DOMAIN R -> DOMAIN R] : \A i, j \in DOMAIN R : f[i] = f[j] => i = j}}

C26_ScoreOrderIndependent ==
  Scored => \A P \in PermutationsOf(call.arg) : computeScore(P) = call.ret

\* a win, a loss and an unreported round, in that order, scored 1-1-0
C26_Witness ==
  /\ Scored
  /\ Len(call.arg) = 3
  /\ IsWin(call.arg[1]) /\ IsLoss(call.arg[2]) /\ Unreported(call.arg[3])
  /\ call.ret.text = "1-1-0"

\* ------------------------------------------------------------------------
\* C27  The stored rounds of a tournament are numbered 1..n in their
\*      order, and an add_round about to write numbers its round
\*      length + 1 = max + 1 of the rounds it read.
\* ------------------------------------------------------------------------
C27_RoundsNumberedInOrder ==
  /\ \A i \in DOMAIN store : \A j \in DOMAIN store[i].rounds :
       store[i].rounds[j].round_number = j
  /\ \A e \in BagToSet(pend) :
       e.op = "add_round" =>
         /\ Len(e.snap) + 1 = MaxRound(e.snap, 1, 0) + 1
         /\ \A j \in DOMAIN e.rounds : e.rounds[j].round_number = j

\* part_002 added round 1 and part_003 then added round 2
C27_Witness ==
  /\ last.op = "add_round" /\ last.file = "part_003" /\ last.resp.ok
  /\ \E i \in OwnedRows(store, last) :
       /\ Len(store[i].rounds) = 2
       /\ "wins" \in DOMAIN store[i].score
       /\ store[i].score.text = "0-0-0"

\* ------------------------------------------------------------------------
\* C28  A successful update_round stores as many rounds as it read, in
\*      the same order, every round but the one it names as it read it,
\*      and leaves the other tournaments as they are.
\* ------------------------------------------------------------------------
C28_OtherRoundsUntouched ==
  [][ \A e \in BagToSet(pend) :
        (WriteOf(e) /\ e.op = "update_round") =>
          LET k == FindIndex(e.snap, toIntOrNull(Get(e.q, "round_number")))
          IN  \A i \in DOMAIN store :
                IF i \in Match(store, e.cust, e.id)
                THEN /\ Len(store'[i].rounds) = Len(e.snap)
                     /\ \A j \in DOMAIN e.snap :
                          /\ store'[i].rounds[j].round_number = e.snap[j].round_number
                          /\ j # k => store'[i].rounds[j] = e.snap[j]
                ELSE store'[i] = store[i] ]_vars

\* ------------------------------------------------------------------------
\* C29  update_tournament and set_final_result, answered ok or not, leave
\*      the rounds, score, id and customer_id of every tournament as they
\*      were.
\* ------------------------------------------------------------------------
C29_MetaCallsKeepRoundsAndOwner ==
  [][ (Answering /\ last'.op \in {"update_tournament", "set_final_result"}) =>
        /\ Len(store') = Len(store)
        /\ \A i \in DOMAIN store :
             \A k \in {"rounds", "score", "id", "customer_id"} :
               store'[i][k] = store[i][k] ]_vars

\* a set_final_result was answered ok on a tournament that has a round
C29_Witness ==
  /\ last.op = "set_final_result" /\ last.resp.ok
  /\ \E i \in OwnedRows(store, last) :
       /\ Len(store[i].rounds) = 1
       /\ store[i].result = last.q.result

====
